---- MODULE Spec2Model ----
(***************************************************************************)
(* Model of the two notebooks of the repository.                           *)
(*                                                                         *)
(*   Creational/Singleton/Sample.ipynb : SingletonMeta.__call__, the       *)
(*     lock-guarded lazy registry, called from several threads.            *)
(*   Behavioral/Observer/Sample.ipynb  : ConcreteSubject with its          *)
(*     class-level observer list and the two concrete observers.           *)
(*                                                                         *)
(* Spec    is the specification of the Singleton notebook,                 *)
(* SpecObs is the specification of the Observer notebook.                  *)
(***************************************************************************)
EXTENDS Naturals, Integers, Sequences, FiniteSets

\* ------------------------------------------------------------------------
\* Bounds of the model
\* ------------------------------------------------------------------------
NumThreads == 2
MaxObjs == 3
MaxAttach == 3

\* ------------------------------------------------------------------------
\* Singleton notebook: values
\* ------------------------------------------------------------------------
Threads == 1..NumThreads

\* Classes whose metaclass is SingletonMeta (the keys of _instances).
TypeIds == {"X", "Y"}

\* Values passed to the constructor by the client code.
Values == {"FOO", "BAR"}

\* A call without the positional argument: Singleton.__init__(self, value)
\* raises TypeError, so the construction fails.
NoArgs == "NOARGS"

ArgSets == Values \cup {NoArgs}

None == "None"
NoThread == 0
\* Absence of an object (a key missing from _instances, an unset local).
NoObj == 0

VARIABLES
  instances,   \* SingletonMeta._instances : TypeIds -> object id or None
  lock,        \* SingletonMeta._lock      : holder thread or NoThread
  heap,        \* the constructed objects  : Seq of [cls, value]
  pc,          \* position of each thread in test_singleton / __call__
  cls,         \* `self` of the thread's current call
  args,        \* `*args` of the thread's current call
  inst,        \* local `instance` of the thread's current call
  ret,         \* `obj` in test_singleton : the value __call__ returned
  printed,     \* what obj.some_business_logic() printed
  firstTime,   \* history: the slot was empty when the call was made
  firstAcq,    \* history: args of the first call on a class that got the lock,
               \* among the calls whose construction does not fail
  origValue,   \* history: args of the call that populated the slot
  nested,      \* the thread's call was made by the constructor it runs
  observers,   \* ConcreteSubject._observers (class attribute, one list)
  state,       \* ConcreteSubject._state per subject instance
  calls,       \* observers whose update() the last notify invoked, in order
  reacted,     \* for each such call, whether the observer printed a reaction
  notifier,    \* the subject of the last notify, or None
  raised,      \* exception the last Observer operation raised, or None
  live,        \* history: set of [obs, stamp] attachments still attached
  clock        \* history: number of attach calls so far

sVars == <<instances, lock, heap, pc, cls, args, inst, ret, printed,
           firstTime, firstAcq, origValue, nested>>
oVars == <<observers, state, calls, reacted, notifier, raised, live, clock>>
vars == <<instances, lock, heap, pc, cls, args, inst, ret, printed,
          firstTime, firstAcq, origValue, nested,
          observers, state, calls, reacted, notifier, raised, live, clock>>

\* ------------------------------------------------------------------------
\* Singleton notebook: operations
\* ------------------------------------------------------------------------

\* Singleton.__init__(self, value): fails unless exactly one value is given.
InitFails(a) == a = NoArgs

\* super().__call__(*args): the new object, with its class and __value.
NewObject(c, a) == [cls |-> c, value |-> a]

\* Objects of class c that were ever constructed.
ObjectsOf(c) == {o \in DOMAIN heap : heap[o].cls = c}

\* obj = Singleton(value): the thread enters SingletonMeta.__call__.
Call(t, c, a) ==
  /\ pc[t] = "idle"
  /\ pc' = [pc EXCEPT ![t] = "acquire"]
  /\ cls' = [cls EXCEPT ![t] = c]
  /\ args' = [args EXCEPT ![t] = a]
  /\ firstTime' = [firstTime EXCEPT ![t] = (instances[c] = NoObj)]
  /\ UNCHANGED <<instances, lock, heap, inst, ret, printed, firstAcq,
                 origValue>>
  /\ UNCHANGED nested
  /\ UNCHANGED oVars

\* Variant of Acquire for a reentrant lock (RLock): the holder may enter.
AcquireReentrant(t) ==
  /\ pc[t] = "acquire"
  /\ lock \in {NoThread, t}
  /\ lock' = t
  /\ pc' = [pc EXCEPT ![t] = "check"]
  /\ firstAcq' = IF firstAcq[cls[t]] = None /\ ~InitFails(args[t])
                 THEN [firstAcq EXCEPT ![cls[t]] = args[t]]
                 ELSE firstAcq
  /\ UNCHANGED <<instances, heap, cls, args, inst, ret, printed, firstTime,
                 origValue>>
  /\ UNCHANGED nested
  /\ UNCHANGED oVars

\* Variant of Acquire with an unguarded fast path: a call that sees the
\* instance does not wait for the lock.
AcquireFastPath(t) ==
  /\ pc[t] = "acquire"
  /\ \/ /\ instances[cls[t]] # NoObj
        /\ pc' = [pc EXCEPT ![t] = "return"]
        /\ UNCHANGED <<lock, firstAcq>>
     \/ /\ instances[cls[t]] = NoObj
        /\ lock = NoThread
        /\ lock' = t
        /\ pc' = [pc EXCEPT ![t] = "check"]
        /\ firstAcq' = IF firstAcq[cls[t]] = None /\ ~InitFails(args[t])
                       THEN [firstAcq EXCEPT ![cls[t]] = args[t]]
                       ELSE firstAcq
  /\ UNCHANGED <<instances, heap, cls, args, inst, ret, printed, firstTime,
                 origValue>>
  /\ UNCHANGED nested
  /\ UNCHANGED oVars

\* Variant of Acquire that does not wait for the lock to be free.
AcquireNoLock(t) ==
  /\ pc[t] = "acquire"
  /\ lock' = t
  /\ pc' = [pc EXCEPT ![t] = "check"]
  /\ firstAcq' = IF firstAcq[cls[t]] = None /\ ~InitFails(args[t])
                 THEN [firstAcq EXCEPT ![cls[t]] = args[t]]
                 ELSE firstAcq
  /\ UNCHANGED <<instances, heap, cls, args, inst, ret, printed, firstTime,
                 origValue>>
  /\ UNCHANGED nested
  /\ UNCHANGED oVars

\* with self._lock:  (blocking acquire)
Acquire(t) ==
  /\ pc[t] = "acquire"
  /\ lock = NoThread
  /\ lock' = t
  /\ pc' = [pc EXCEPT ![t] = "check"]
  /\ firstAcq' = IF firstAcq[cls[t]] = None /\ ~InitFails(args[t])
                 THEN [firstAcq EXCEPT ![cls[t]] = args[t]]
                 ELSE firstAcq
  /\ UNCHANGED <<instances, heap, cls, args, inst, ret, printed, firstTime,
                 origValue>>
  /\ UNCHANGED nested
  /\ UNCHANGED oVars

\* Variant of Check whose condition is always true: every call constructs.
CheckAlwaysAbsent(t) ==
  /\ pc[t] = "check"
  /\ pc' = [pc EXCEPT ![t] = "construct"]
  /\ UNCHANGED <<instances, lock, heap, cls, args, inst, ret, printed,
                 firstTime, firstAcq, origValue>>
  /\ UNCHANGED nested
  /\ UNCHANGED oVars

\* Variant of Check in which the with block ends right after the test.
CheckUnlocks(t) ==
  /\ pc[t] = "check"
  /\ pc' = [pc EXCEPT ![t] = IF instances[cls[t]] = NoObj
                             THEN "construct" ELSE "return"]
  /\ lock' = NoThread
  /\ UNCHANGED <<instances, heap, cls, args, inst, ret, printed,
                 firstTime, firstAcq, origValue>>
  /\ UNCHANGED nested
  /\ UNCHANGED oVars

\* if self not in self._instances:
Check(t) ==
  /\ pc[t] = "check"
  /\ pc' = [pc EXCEPT ![t] = IF instances[cls[t]] = NoObj
                             THEN "construct" ELSE "return"]
  /\ UNCHANGED <<instances, lock, heap, cls, args, inst, ret, printed,
                 firstTime, firstAcq, origValue>>
  /\ UNCHANGED nested
  /\ UNCHANGED oVars

\* instance = super().__call__(*args, **kwargs)   (construction succeeds)
Construct(t) ==
  /\ pc[t] = "construct"
  /\ ~InitFails(args[t])
  /\ Len(heap) < MaxObjs
  /\ heap' = Append(heap, NewObject(cls[t], args[t]))
  /\ inst' = [inst EXCEPT ![t] = Len(heap) + 1]
  /\ pc' = [pc EXCEPT ![t] = "store"]
  /\ UNCHANGED <<instances, lock, cls, args, ret, printed, firstTime,
                 firstAcq, origValue>>
  /\ UNCHANGED nested
  /\ UNCHANGED oVars

\* Variant of ConstructFail in which the exception skips the release.
ConstructFailKeepsLock(t) ==
  /\ pc[t] = "construct"
  /\ InitFails(args[t])
  /\ pc' = [pc EXCEPT ![t] = "raised"]
  /\ UNCHANGED <<instances, lock, heap, cls, args, inst, ret, printed,
                 firstTime, firstAcq, origValue>>
  /\ UNCHANGED nested
  /\ UNCHANGED oVars

\* instance = super().__call__(*args, **kwargs) raises: the exception leaves
\* the with block, which releases the lock, and reaches the caller.
ConstructFail(t) ==
  /\ pc[t] = "construct"
  /\ InitFails(args[t])
  /\ lock' = NoThread
  /\ pc' = [pc EXCEPT ![t] = "raised"]
  /\ UNCHANGED <<instances, heap, cls, args, inst, ret, printed, firstTime,
                 firstAcq, origValue>>
  /\ UNCHANGED nested
  /\ UNCHANGED oVars

\* Classes whose __init__(self, value) itself calls a class of metaclass
\* SingletonMeta (client classes of that shape; Singleton is not one).
NestingTypes == {"Y"}

\* instance = super().__call__(*args, **kwargs) of a class without a nested
\* call.
ConstructLeaf(t) ==
  /\ cls[t] \notin NestingTypes
  /\ Construct(t)

\* instance = super().__call__(*args, **kwargs) of a class whose __init__
\* calls c(value): the same thread, still inside the with block, enters
\* SingletonMeta.__call__ again and reaches `with self._lock`.
NestedCall(t, c) ==
  /\ pc[t] = "construct"
  /\ cls[t] \in NestingTypes
  /\ ~InitFails(args[t])
  /\ ~nested[t]
  /\ nested' = [nested EXCEPT ![t] = TRUE]
  /\ cls' = [cls EXCEPT ![t] = c]
  /\ firstTime' = [firstTime EXCEPT ![t] = (instances[c] = NoObj)]
  /\ pc' = [pc EXCEPT ![t] = "acquire"]
  /\ UNCHANGED <<instances, lock, heap, args, inst, ret, printed, firstAcq,
                 origValue>>
  /\ UNCHANGED oVars

\* Variant of Store that keeps one slot for all classes.
StoreShared(t) ==
  /\ pc[t] = "store"
  /\ instances' = [c \in TypeIds |-> inst[t]]
  /\ origValue' = IF instances[cls[t]] = NoObj
                  THEN [origValue EXCEPT ![cls[t]] = args[t]]
                  ELSE origValue
  /\ pc' = [pc EXCEPT ![t] = "return"]
  /\ UNCHANGED <<lock, heap, cls, args, inst, ret, printed, firstTime,
                 firstAcq>>
  /\ UNCHANGED nested
  /\ UNCHANGED oVars

\* self._instances[self] = instance
Store(t) ==
  /\ pc[t] = "store"
  /\ instances' = [instances EXCEPT ![cls[t]] = inst[t]]
  /\ origValue' = IF instances[cls[t]] = NoObj
                  THEN [origValue EXCEPT ![cls[t]] = args[t]]
                  ELSE origValue
  /\ pc' = [pc EXCEPT ![t] = "return"]
  /\ UNCHANGED <<lock, heap, cls, args, inst, ret, printed, firstTime,
                 firstAcq>>
  /\ UNCHANGED nested
  /\ UNCHANGED oVars

\* Variant of Return that runs __init__ on the stored instance again.
ReturnReinit(t) ==
  /\ pc[t] = "return"
  /\ ret' = [ret EXCEPT ![t] = instances[cls[t]]]
  /\ heap' = IF args[t] \in Values
             THEN [heap EXCEPT ![instances[cls[t]]].value = args[t]]
             ELSE heap
  /\ lock' = NoThread
  /\ inst' = [inst EXCEPT ![t] = NoObj]
  /\ pc' = [pc EXCEPT ![t] = "done"]
  /\ UNCHANGED <<instances, cls, args, printed, firstTime, firstAcq,
                 origValue>>
  /\ UNCHANGED nested
  /\ UNCHANGED oVars

\* return self._instances[self]   (and the with block releases the lock)
Return(t) ==
  /\ pc[t] = "return"
  /\ ret' = [ret EXCEPT ![t] = instances[cls[t]]]
  /\ lock' = NoThread
  /\ inst' = [inst EXCEPT ![t] = NoObj]
  /\ pc' = [pc EXCEPT ![t] = "done"]
  /\ UNCHANGED <<instances, heap, cls, args, printed, firstTime, firstAcq,
                 origValue>>
  /\ UNCHANGED nested
  /\ UNCHANGED oVars

\* obj.some_business_logic(): print(self.__value)
SingletonBusinessLogic(t) ==
  /\ pc[t] = "done"
  /\ printed' = [printed EXCEPT ![t] = heap[ret[t]].value]
  /\ pc' = [pc EXCEPT ![t] = "printed"]
  /\ UNCHANGED <<instances, lock, heap, cls, args, inst, ret, firstTime,
                 firstAcq, origValue>>
  /\ UNCHANGED nested
  /\ UNCHANGED oVars

\* test_singleton is over, by its return or by the exception of the call;
\* its locals are gone and the execution context can run the next call.
Exit(t) ==
  /\ pc[t] \in {"printed", "raised"}
  /\ pc' = [pc EXCEPT ![t] = "idle"]
  /\ cls' = [cls EXCEPT ![t] = "X"]
  /\ args' = [args EXCEPT ![t] = NoArgs]
  /\ inst' = [inst EXCEPT ![t] = NoObj]
  /\ ret' = [ret EXCEPT ![t] = NoObj]
  /\ printed' = [printed EXCEPT ![t] = None]
  /\ firstTime' = [firstTime EXCEPT ![t] = FALSE]
  /\ nested' = [nested EXCEPT ![t] = FALSE]
  /\ UNCHANGED <<instances, lock, heap, firstAcq, origValue>>
  /\ UNCHANGED oVars

\* ------------------------------------------------------------------------
\* Observer notebook: values
\* ------------------------------------------------------------------------

\* Instances of ConcreteSubject.
Subjects == {"s1", "s2"}

\* Instances of ConcreteObserverA and ConcreteObserverB.
Observers == {"observer_a", "observer_b", "observer_a2"}

\* The class of an observer instance.
Kind(o) == IF o = "observer_b" THEN "B" ELSE "A"

\* randrange(0, 10)
StateLow == 0
StateHigh == 10
States == StateLow..(StateHigh - 1)

\* _state: int = None
NoState == -1

\* ------------------------------------------------------------------------
\* Observer notebook: pure functions
\* ------------------------------------------------------------------------

\* list.append(x)
ListAppend(l, x) == Append(l, x)

\* x in list
ListContains(l, x) == \E i \in 1..Len(l) : l[i] = x

\* list.index(x): position of the first occurrence
ListIndex(l, x) == CHOOSE i \in 1..Len(l) :
                     /\ l[i] = x
                     /\ \A j \in 1..(i - 1) : l[j] # x

\* list.remove(x) when x is in the list: drops the first occurrence
ListRemove(l, x) ==
  LET k == ListIndex(l, x)
  IN  [i \in 1..(Len(l) - 1) |-> IF i < k THEN l[i] ELSE l[i + 1]]

\* update(subject) compares subject._state with an int; while _state is
\* still None the comparison raises TypeError.
UpdateRaises(o, st) == st = NoState

\* Variant of Reacts with the bounds of the comparisons off by one.
ReactsOffByOne(o, st) ==
  IF Kind(o) = "A" THEN st <= 3 ELSE (st = 0 \/ st > 2)

\* ConcreteObserverA.update / ConcreteObserverB.update: does it print?
Reacts(o, st) ==
  IF Kind(o) = "A" THEN st < 3 ELSE (st = 0 \/ st >= 2)

\* for observer in self._observers: observer.update(self)
\* The observers whose update is invoked, in order; an update that raises
\* ends the loop.
RECURSIVE NotifyCalls(_, _)
NotifyCalls(l, st) ==
  IF l = <<>> THEN <<>>
  ELSE IF UpdateRaises(Head(l), st) THEN <<Head(l)>>
       ELSE <<Head(l)>> \o NotifyCalls(Tail(l), st)

\* Whether each invoked update printed its reaction.
NotifyReactions(l, st) ==
  LET c == NotifyCalls(l, st)
  IN  [i \in 1..Len(c) |-> (~UpdateRaises(c[i], st)) /\ Reacts(c[i], st)]

NotifyRaises(l, st) == \E i \in 1..Len(l) : UpdateRaises(l[i], st)

\* The attachment of o that list.remove(o) ends: the earliest one alive.
EarliestLive(o) ==
  CHOOSE r \in live : /\ r.obs = o
                      /\ \A q \in live : q.obs = o => r.stamp <= q.stamp

\* ------------------------------------------------------------------------
\* Observer notebook: operations
\* ------------------------------------------------------------------------

\* subject.attach(observer)
Attach(s, o) ==
  /\ clock < MaxAttach
  /\ observers' = ListAppend(observers, o)
  /\ live' = live \cup {[obs |-> o, stamp |-> clock + 1]}
  /\ clock' = clock + 1
  /\ calls' = <<>>
  /\ reacted' = <<>>
  /\ notifier' = None
  /\ raised' = None
  /\ UNCHANGED state
  /\ UNCHANGED sVars

\* subject.detach(observer), the observer is in the list
Detach(s, o) ==
  /\ ListContains(observers, o)
  /\ observers' = ListRemove(observers, o)
  /\ live' = live \ {EarliestLive(o)}
  /\ calls' = <<>>
  /\ reacted' = <<>>
  /\ notifier' = None
  /\ raised' = None
  /\ UNCHANGED <<state, clock>>
  /\ UNCHANGED sVars

\* Variant of DetachMissing that swallows the miss and drops the last entry.
DetachMissingPops(s, o) ==
  /\ ~ListContains(observers, o)
  /\ raised' = "ValueError"
  /\ observers' = IF observers = <<>> THEN observers
                  ELSE SubSeq(observers, 1, Len(observers) - 1)
  /\ calls' = <<>>
  /\ reacted' = <<>>
  /\ notifier' = None
  /\ UNCHANGED <<state, live, clock>>
  /\ UNCHANGED sVars

\* subject.detach(observer), the observer is not in the list:
\* list.remove raises ValueError
DetachMissing(s, o) ==
  /\ ~ListContains(observers, o)
  /\ raised' = "ValueError"
  /\ calls' = <<>>
  /\ reacted' = <<>>
  /\ notifier' = None
  /\ UNCHANGED <<observers, state, live, clock>>
  /\ UNCHANGED sVars

\* The effect of self.notify() on a subject whose _state is st.
NotifyEffect(s, st) ==
  /\ calls' = NotifyCalls(observers, st)
  /\ reacted' = NotifyReactions(observers, st)
  /\ raised' = IF NotifyRaises(observers, st) THEN "TypeError" ELSE None
  /\ notifier' = s

\* subject.notify()
Notify(s) ==
  /\ NotifyEffect(s, state[s])
  /\ UNCHANGED <<observers, state, live, clock>>
  /\ UNCHANGED sVars

\* subject.some_business_logic(), randrange returning r
SomeBusinessLogic(s, r) ==
  /\ state' = [state EXCEPT ![s] = r]
  /\ NotifyEffect(s, r)
  /\ UNCHANGED <<observers, live, clock>>
  /\ UNCHANGED sVars

\* ------------------------------------------------------------------------
\* Initial states and specifications
\* ------------------------------------------------------------------------

InitSingleton ==
  /\ instances = [c \in TypeIds |-> NoObj]
  /\ lock = NoThread
  /\ heap = <<>>
  /\ pc = [t \in Threads |-> "idle"]
  /\ cls = [t \in Threads |-> "X"]
  /\ args = [t \in Threads |-> NoArgs]
  /\ inst = [t \in Threads |-> NoObj]
  /\ ret = [t \in Threads |-> NoObj]
  /\ printed = [t \in Threads |-> None]
  /\ firstTime = [t \in Threads |-> FALSE]
  /\ firstAcq = [c \in TypeIds |-> None]
  /\ origValue = [c \in TypeIds |-> None]
  /\ nested = [t \in Threads |-> FALSE]

InitObserver ==
  /\ observers = <<>>
  /\ state = [s \in Subjects |-> NoState]
  /\ calls = <<>>
  /\ reacted = <<>>
  /\ notifier = None
  /\ raised = None
  /\ live = {}
  /\ clock = 0

Init == InitSingleton /\ InitObserver

Next ==
  \/ \E t \in Threads, c \in TypeIds, a \in ArgSets : Call(t, c, a)
  \/ \E t \in Threads : Acquire(t)
  \/ \E t \in Threads : Check(t)
  \/ \E t \in Threads : Construct(t)
  \/ \E t \in Threads : ConstructFail(t)
  \/ \E t \in Threads : Store(t)
  \/ \E t \in Threads : Return(t)
  \/ \E t \in Threads : SingletonBusinessLogic(t)
  \/ \E t \in Threads : Exit(t)

Spec == Init /\ [][Next]_vars

\* One step of thread t inside its call or after it.
ThreadStep(t) ==
  \/ Acquire(t)
  \/ Check(t)
  \/ Construct(t)
  \/ ConstructFail(t)
  \/ Store(t)
  \/ Return(t)
  \/ SingletonBusinessLogic(t)

\* The client code: each thread runs test_singleton once.
NextOnce ==
  \/ \E t \in Threads, c \in TypeIds, a \in ArgSets : Call(t, c, a)
  \/ \E t \in Threads : Acquire(t)
  \/ \E t \in Threads : Check(t)
  \/ \E t \in Threads : Construct(t)
  \/ \E t \in Threads : ConstructFail(t)
  \/ \E t \in Threads : Store(t)
  \/ \E t \in Threads : Return(t)
  \/ \E t \in Threads : SingletonBusinessLogic(t)

\* Fair scheduling: a thread that can take a step eventually takes one.
FairSpec ==
  Init /\ [][NextOnce]_vars /\ \A t \in Threads : WF_vars(ThreadStep(t))

\* A client program in which the constructor of the classes in NestingTypes
\* calls a class of metaclass SingletonMeta.
NextNested ==
  \/ \E t \in Threads, c \in TypeIds, a \in ArgSets : Call(t, c, a)
  \/ \E t \in Threads : Acquire(t)
  \/ \E t \in Threads : Check(t)
  \/ \E t \in Threads : ConstructLeaf(t)
  \/ \E t \in Threads, c \in TypeIds : NestedCall(t, c)
  \/ \E t \in Threads : ConstructFail(t)
  \/ \E t \in Threads : Store(t)
  \/ \E t \in Threads : Return(t)
  \/ \E t \in Threads : SingletonBusinessLogic(t)
  \/ \E t \in Threads : Exit(t)

SpecNested == Init /\ [][NextNested]_vars

NextObs ==
  \/ \E s \in Subjects, o \in Observers : Attach(s, o)
  \/ \E s \in Subjects, o \in Observers : Detach(s, o)
  \/ \E s \in Subjects, o \in Observers : DetachMissing(s, o)
  \/ \E s \in Subjects : Notify(s)
  \/ \E s \in Subjects, r \in States : SomeBusinessLogic(s, r)

SpecObs == Init /\ [][NextObs]_vars

\* ------------------------------------------------------------------------
\* Properties of the Singleton notebook (checked under Spec)
\* ------------------------------------------------------------------------

\* The thread is back in test_singleton with the value of the call.
Returned(t) == pc[t] \in {"done", "printed"}

\* The thread is inside the with block of __call__.
InGuard(t) == pc[t] \in {"check", "construct", "store", "return"}

\* Number of objects of class c that were constructed.
Constructions(c) == Cardinality(ObjectsOf(c))

\* C1: concurrent first-time calls for one class construct exactly one
\* object of the class, and all of them return that same object.
C1_OneConstruction ==
  /\ \A c \in TypeIds : Constructions(c) <= 1
  /\ \A t \in Threads :
       Returned(t) => /\ ret[t] # NoObj
                      /\ Constructions(cls[t]) = 1
  /\ \A t, u \in Threads :
       (Returned(t) /\ Returned(u) /\ cls[t] = cls[u]) => ret[t] = ret[u]

\* All threads made a first-time call for X and all have returned.
C1_Witness ==
  \A t \in Threads : Returned(t) /\ cls[t] = "X" /\ firstTime[t]

\* C2: a call made after the slot was populated returns the object that
\* populated it, which still holds the value it was constructed with,
\* whatever arguments the later call passes.
C2_LaterCallsReturnOriginal ==
  \A t \in Threads :
    (Returned(t) /\ ~firstTime[t]) =>
       /\ ret[t] \in ObjectsOf(cls[t])
       /\ \A o \in ObjectsOf(cls[t]) : ret[t] <= o
       /\ heap[ret[t]].value = origValue[cls[t]]
       /\ (pc[t] = "printed" => printed[t] = origValue[cls[t]])

\* A later call with BAR got the instance that holds FOO.
C2_Witness ==
  \E t \in Threads :
    /\ pc[t] = "printed" /\ ~firstTime[t]
    /\ args[t] = "BAR" /\ printed[t] = "FOO"

\* A step that writes slot c: the slot was empty, and the writer is a
\* first-time call for c storing the object it constructed.
FirstWrite(c) ==
  /\ instances[c] = NoObj
  /\ \E t \in Threads : /\ pc[t] = "store" /\ cls[t] = c /\ firstTime[t]
                        /\ instances'[c] = inst[t]
                        /\ inst[t] # NoObj

\* C3: a populated slot of the registry is never replaced or removed; the
\* registry changes only when a first-time call stores into an empty slot.
C3_SlotWrittenOnce ==
  [][\A c \in TypeIds :
       /\ instances[c] # NoObj => instances'[c] = instances[c]
       /\ instances'[c] # instances[c] => FirstWrite(c)]_vars

\* Both slots are populated and a later call for each class has returned.
C3_Witness ==
  /\ \A c \in TypeIds : instances[c] # NoObj
  /\ \E t, u \in Threads : /\ Returned(t) /\ ~firstTime[t] /\ cls[t] = "X"
                           /\ Returned(u) /\ ~firstTime[u] /\ cls[u] = "Y"

\* C4: two first-time calls for one class print the same value, that of
\* the one object both got, which is a constructor value (FOO or BAR): the
\* one given by the call that populated the slot.
C4_SameValuePrinted ==
  \A t, u \in Threads :
    (/\ t # u /\ cls[t] = cls[u]
     /\ pc[t] = "printed" /\ pc[u] = "printed"
     /\ firstTime[t] /\ firstTime[u]) =>
       /\ ret[t] = ret[u]
       /\ printed[t] = printed[u]
       /\ printed[t] \in Values
       /\ printed[t] = origValue[cls[t]]

\* The demo: thread 1 passed FOO, thread 2 passed BAR, both printed FOO.
C4_Witness ==
  /\ pc[1] = "printed" /\ pc[2] = "printed"
  /\ cls[1] = "X" /\ cls[2] = "X"
  /\ firstTime[1] /\ firstTime[2]
  /\ args[1] = "FOO" /\ args[2] = "BAR"
  /\ printed[1] = "FOO" /\ printed[2] = "FOO"

\* At most one thread is inside the with block, and it is the lock holder.
MutualExclusion ==
  /\ Cardinality({t \in Threads : InGuard(t)}) <= 1
  /\ \A t \in Threads : InGuard(t) => lock = t

\* A step that changes the registry is taken by the lock holder.
WriteUnderGuard ==
  instances' # instances =>
    \E t \in Threads : lock = t /\ pc[t] = "store" /\ pc'[t] = "return"

\* C5: the lock gives mutual exclusion, and every write to the registry is
\* made by the thread that holds the lock.
C5_GuardCoversRegistry ==
  [](MutualExclusion) /\ [][WriteUnderGuard]_vars

\* A thread is about to store while another one waits for the lock.
C5_Witness ==
  \E t, u \in Threads : pc[t] = "store" /\ lock = t /\ pc[u] = "acquire"

\* Threads that found class c absent and whose construction does not fail
\* (they are constructing, or their object exists).
AbsentObservations(c) ==
  Cardinality(ObjectsOf(c)) +
  Cardinality({t \in Threads : /\ pc[t] = "construct" /\ cls[t] = c
                               /\ ~InitFails(args[t])})

\* C6: the test, the construction and the store run under one hold of the
\* lock, which is taken before the test; so no two calls whose construction
\* does not fail find the same class absent.
C6_NoTwoObserveAbsent ==
  /\ \A t \in Threads :
       pc[t] \in {"check", "construct", "store"} => lock = t
  /\ \A t \in Threads :
       pc[t] \in {"construct", "store"} => instances[cls[t]] = NoObj
  /\ \A c \in TypeIds : AbsentObservations(c) <= 1

\* One first-time call found X absent, a second first-time call for X waits.
C6_Witness ==
  \E t, u \in Threads :
    /\ pc[t] = "construct" /\ ~InitFails(args[t]) /\ cls[t] = "X"
    /\ pc[u] = "acquire" /\ cls[u] = "X" /\ firstTime[u]

\* A step in which the construction of thread t fails.
Fails(t) == pc[t] = "construct" /\ pc'[t] = "raised"

\* C7: a failing construction reaches the caller as an exception, releases
\* the lock and leaves the registry as it was, the slot of the class still
\* empty; a call that finds the slot empty constructs, so a later call can
\* populate it.
C7_FailureLeavesSlotEmpty ==
  /\ [][\A t \in Threads :
          /\ Fails(t) => /\ lock' = NoThread
                         /\ instances' = instances
                         /\ instances'[cls[t]] = NoObj
                         /\ ret'[t] = NoObj
          /\ (pc[t] = "construct" /\ InitFails(args[t]) /\ pc'[t] # pc[t])
                => Fails(t)
          /\ (pc[t] = "check" /\ instances[cls[t]] = NoObj /\ pc'[t] # pc[t])
                => pc'[t] = "construct"]_vars
  /\ [](\A t \in Threads : pc[t] = "raised" => lock # t)

\* The call of t failed, and a later construction for the same class
\* succeeded: u got the instance.
C7_Witness ==
  \E t, u \in Threads :
    /\ pc[t] = "raised" /\ pc[u] = "printed" /\ cls[u] = cls[t]
    /\ instances[cls[t]] # NoObj /\ lock = NoThread

\* C8: the value of the shared instance is that of the call that got the
\* lock first (of the calls whose construction does not fail), and when two first-time calls wait for the free lock either
\* of them can get it.
C8_FirstAcquirerWins ==
  /\ \A c \in TypeIds :
       instances[c] # NoObj =>
          /\ firstAcq[c] \in Values
          /\ heap[instances[c]].value = firstAcq[c]
  /\ \A t, u \in Threads :
       (/\ t # u /\ pc[t] = "acquire" /\ pc[u] = "acquire"
        /\ cls[t] = cls[u] /\ lock = NoThread) =>
          (ENABLED Acquire(t)) /\ (ENABLED Acquire(u))

\* The outcome the notebook did not record: thread 2 (BAR) won the race.
C8_Witness ==
  /\ pc[1] = "printed" /\ pc[2] = "printed"
  /\ cls[1] = "X" /\ cls[2] = "X"
  /\ firstTime[1] /\ firstTime[2]
  /\ args[1] = "FOO" /\ args[2] = "BAR"
  /\ printed[1] = "BAR" /\ printed[2] = "BAR"
  /\ firstAcq["X"] = "BAR"

\* C9: a call for class c writes at most the slot of c, the stored and the
\* returned object of a class are objects of that class, built from the
\* arguments of the call that populated its slot.
C9_FamiliesIndependent ==
  /\ [][\A t \in Threads : \A c \in TypeIds :
          (pc'[t] # pc[t] /\ c # cls[t] /\ pc[t] # "idle")
             => instances'[c] = instances[c]]_vars
  /\ [](\A c \in TypeIds :
          instances[c] # NoObj => /\ heap[instances[c]].cls = c
                                  /\ heap[instances[c]].value = origValue[c])
  /\ [](\A t \in Threads :
          Returned(t) => /\ heap[ret[t]].cls = cls[t]
                         /\ ret[t] = instances[cls[t]])

\* Both classes have their own instance, with different values.
C9_Witness ==
  /\ instances["X"] # NoObj /\ instances["Y"] # NoObj
  /\ instances["X"] # instances["Y"]
  /\ heap[instances["X"]].value = "FOO"
  /\ heap[instances["Y"]].value = "BAR"
  /\ \E t, u \in Threads : /\ Returned(t) /\ cls[t] = "X"
                           /\ Returned(u) /\ cls[u] = "Y"

\* The thread is inside __call__, waiting for the lock or holding it.
InCall(t) == pc[t] = "acquire" \/ InGuard(t)

\* The call of the thread is over: it returned, or its construction raised.
CallOver(t) == Returned(t) \/ pc[t] = "raised"

\* C12: under fair scheduling every call gets the lock, leaves the with
\* block and ends (it returns; a call whose construction raises ends with
\* that exception), a call that does not construct or whose construction
\* does not fail returns, and the lock is free whenever no call is in
\* progress.
C12_EveryCallReturns ==
  /\ \A t \in Threads : (pc[t] = "acquire") ~> (lock = t)
  /\ \A t \in Threads : (pc[t] = "acquire") ~> CallOver(t)
  /\ \A t \in Threads :
       (pc[t] = "acquire" /\ ~InitFails(args[t])) ~> Returned(t)
  /\ []((\A t \in Threads : ~InCall(t)) => lock = NoThread)
  /\ [](\A t \in Threads : CallOver(t) => lock # t)

\* Every thread made its call, every call is over and the lock is free.
C12_Witness ==
  /\ \A t \in Threads : pc[t] = "printed"
  /\ lock = NoThread
  /\ \E t, u \in Threads : cls[t] = "X" /\ cls[u] = "Y"

\* No step lets a call pass the lock, return, or change the registry.
AllBlocked ==
  /\ lock' = lock
  /\ instances' = instances
  /\ nested' = nested
  /\ \A u \in Threads :
       /\ pc[u] = "acquire" => pc'[u] = "acquire"
       /\ ~Returned(u) => ~Returned(u)'
       /\ InGuard(u)' => InGuard(u)

\* C13: the lock is held during construction and is not reentrant: a call
\* made by the running constructor waits for the lock its own thread holds
\* and never gets it, for the same class or another one; from then on the
\* outer call does not return and no other call passes the lock.
C13_NestedCallDeadlocks ==
  /\ [](\A t \in Threads :
          nested[t] => /\ pc[t] = "acquire"
                       /\ lock = t
                       /\ ret[t] = NoObj
                       /\ \A u \in Threads : u # t => ~InGuard(u))
  /\ [][(\E t \in Threads : nested[t]) => AllBlocked]_vars

\* The constructor of Y called X, whose instance exists; another caller of
\* X waits as well.
C13_Witness ==
  \E t, u \in Threads :
    /\ nested[t] /\ cls[t] = "X" /\ instances["X"] # NoObj
    /\ u # t /\ pc[u] = "acquire" /\ cls[u] = "X"

\* Thread t is running the constructor (or storing its result).
Constructing(t) == pc[t] \in {"construct", "store"}

\* C14: there is one lock for all callers and classes: while a thread
\* constructs, no other call, of any class, is past the lock, and no step
\* that leaves it constructing lets a waiting call through or a call return.
C14_OneGuardForAll ==
  /\ [](\A t, u \in Threads :
          (Constructing(t) /\ u # t) => ~InGuard(u))
  /\ [][\A t \in Threads :
          (Constructing(t) /\ pc'[t] = "construct") =>
             \A u \in Threads :
               /\ pc[u] = "acquire" => pc'[u] = "acquire"
               /\ ~Returned(u) => ~Returned(u)']_vars

\* A thread constructs X while a call for Y, whose instance exists, waits.
C14_Witness ==
  \E t, u \in Threads :
    /\ pc[t] = "construct" /\ cls[t] = "X"
    /\ pc[u] = "acquire" /\ cls[u] = "Y" /\ instances["Y"] # NoObj

\* ------------------------------------------------------------------------
\* Properties of the Observer notebook (checked under SpecObs)
\* ------------------------------------------------------------------------

\* The observers of the attachments in a, earliest attachment first.
RECURSIVE ByStamp(_)
ByStamp(a) ==
  IF a = {} THEN <<>>
  ELSE LET r == CHOOSE x \in a : \A y \in a : x.stamp <= y.stamp
       IN  <<r.obs>> \o ByStamp(a \ {r})

\* C10: a notify invokes update once per list entry, in the order in which
\* the currently attached observers were attached.
C10_NotifyInAttachmentOrder ==
  notifier # None => calls = ByStamp(live)

\* The elements of a sequence.
Range(q) == {q[i] : i \in 1..Len(q)}

\* Number of occurrences of x in a sequence.
Count(q, x) == Cardinality({i \in 1..Len(q) : q[i] = x})

\* Number of attachments of o that are still attached.
Attachments(o) == Cardinality({r \in live : r.obs = o})

\* A notify on a subject whose _state is set reaches every list entry, in
\* attachment order, and raises nothing.  (The cases C10, C11, C15 and C17
\* fail in are those of a notify on a subject whose _state is still None.)
NotifyCompleteWhenStateSet ==
  (notifier # None /\ state[notifier] # NoState) =>
     /\ calls = ByStamp(live)
     /\ calls = observers
     /\ raised = None

\* C11: once an observer was detached, a notify invokes no observer that
\* is not attached any more, and it invokes every observer that still is,
\* in the unchanged order of their attachment.
C11_DetachedNotNotified ==
  (notifier # None /\ Cardinality(live) < clock) =>
     /\ \A o \in Observers : Attachments(o) = 0 => o \notin Range(calls)
     /\ calls = ByStamp(live)

\* C15: the list is shared by the subjects: an observer attached through
\* any subject is notified by a notify on any subject.
C15_SharedByAllSubjects ==
  \A s \in Subjects :
    notifier = s => \A o \in Observers : Attachments(o) > 0 => o \in Range(calls)

\* The list is what the attachments still alive make it, earliest first.
ListIsLiveAttachments == observers = ByStamp(live)

\* C16: a detach of an observer that is not attached raises ValueError and
\* changes neither the members nor the order of the list, so a notify on
\* any subject invokes the same observers after it as before it.
C16_FailedDetachChangesNothing ==
  /\ [][raised' = "ValueError" =>
          /\ observers' = observers
          /\ live' = live
          /\ state' = state
          /\ \E o \in Observers : ~ListContains(observers, o)
          /\ \A s \in Subjects :
               NotifyCalls(observers', state'[s]) =
               NotifyCalls(observers, state[s])]_vars
  /\ [](ListIsLiveAttachments)

\* A detach failed on a list of two entries.
C16_Witness ==
  /\ raised = "ValueError"
  /\ Len(observers) = 2
  /\ observers[1] # observers[2]

\* C17: an observer attached k times (and not detached) gets k update
\* calls in each notify.
C17_DuplicatesNotified ==
  notifier # None => \A o \in Observers : Count(calls, o) = Attachments(o)

\* The states in which each class of observer prints its reaction.
ReactionStatesA == {0, 1, 2}
ReactionStatesB == {0, 2, 3, 4, 5, 6, 7, 8, 9}

\* The reactions of a notify are those of state st.
ReactionsOf(st) ==
  \A i \in 1..Len(calls) :
    reacted[i] = IF Kind(calls[i]) = "A" THEN st \in ReactionStatesA
                                          ELSE st \in ReactionStatesB

\* C18: some_business_logic sets the state of its subject to a value in
\* 0..9 and runs one notify over the whole list with that new state;
\* A reacts iff state < 3, B iff state = 0 or state >= 2: for every state
\* one of them reacts, both for 0 and 2, and A alone for 1.
C18_BusinessLogicReactions ==
  /\ [][\A s \in Subjects :
          state'[s] # state[s] =>
             /\ state'[s] \in 0..9
             /\ notifier' = s
             /\ calls' = observers
             /\ observers' = observers
             /\ raised' = None]_vars
  /\ []((notifier # None /\ state[notifier] # NoState) =>
          /\ Len(reacted) = Len(calls)
          /\ ReactionsOf(state[notifier])
          /\ \A i, j \in 1..Len(calls) :
               (Kind(calls[i]) = "A" /\ Kind(calls[j]) = "B") =>
                  /\ reacted[i] \/ reacted[j]
                  /\ (reacted[i] /\ reacted[j]) <=> state[notifier] \in {0, 2}
                  /\ state[notifier] = 1 => (reacted[i] /\ ~reacted[j]))

\* The state became 1: observer_a reacted, observer_b did not.
C18_Witness ==
  /\ notifier # None
  /\ state[notifier] = 1
  /\ calls = <<"observer_a", "observer_b">>
  /\ reacted = <<TRUE, FALSE>>

TypeOK ==
  /\ instances \in [TypeIds -> (1..MaxObjs) \cup {NoObj}]
  /\ lock \in Threads \cup {NoThread}
  /\ pc \in [Threads -> {"idle", "acquire", "check", "construct", "store",
                         "return", "done", "printed", "raised"}]
====
